---- MODULE Spec2Model ----
(***************************************************************************)
(* A model of the employee service: the handlers of handlers/routes.rs,    *)
(* the repository functions of repository/database.rs, the r2d2 pool the   *)
(* handlers take connections from, the reactor thread the handlers are     *)
(* polled on and the thread pool web::block runs closures on; and the      *)
(* payload handler's bounded body accumulation.                            *)
(***************************************************************************)
EXTENDS Integers, Sequences, FiniteSets, TLC

\* ---------------------------------------------------------------- bounds
MaxRequests == 2    \* requests the clients send in one behaviour
PoolSize == 1       \* connections the pool was built with
NumWorkers == 1     \* threads of the blocking thread pool
MaxTime == 1        \* last reading of the wall clock
MaxChunks == 3      \* chunks of one request body

\* ------------------------------------------------------ program constants
MAX_SIZE == 262144

Requests == 1..MaxRequests
Conns == 1..PoolSize
Workers == 1..NumWorkers
Names == {"B"}
PathIds == {1}
\* Option<NaiveDateTime>: None is {}, Some(t) is {t}
SuppliedTimes == {{}, {0}}

VARIABLES
    pc,          \* position of each request's handler future
    req,         \* the extracted inputs of each request
    reactor,     \* the request whose handler occupies the reactor thread, or 0
    idle,        \* the pool's idle connections
    conn,        \* the PooledConnection each request owns, or 0
    queue,       \* closures handed to web::block and not yet started
    worker,      \* the request whose closure each pool thread runs, or 0
    arg,         \* the value moved into each request's closure
    employees,   \* the employees table
    next_id,     \* the table's id sequence
    now,         \* the wall clock
    result,      \* what pool.get() / web::block(..).await gave each handler
    resp,        \* the HTTP status each request was answered with, or 0
    body,        \* payload: bytes accumulated in the BytesMut
    fed,         \* payload: bytes of all chunks taken from the stream
    last,        \* payload: length of the chunk taken last
    nread,       \* payload: number of chunks taken from the stream
    ppc,         \* payload: position of the payload handler
    dropped,     \* requests whose client went away while the handler awaited
    boot,        \* position of main
    env,         \* what main finds: DATABASE_URL set, database reachable
    rt           \* router: the request routed last and what it was given

empVars == <<pc, req, reactor, idle, conn, queue, worker, arg, employees,
             next_id, now, result, resp>>
payVars == <<body, fed, last, nread, ppc>>
sideVars == <<dropped, boot, env, rt>>
vars == <<pc, req, reactor, idle, conn, queue, worker, arg, employees,
          next_id, now, result, resp, body, fed, last, nread, ppc,
          dropped, boot, env, rt>>

\* ------------------------------------------------------------ data model
\* models::employee::Employee
Employee(i, n, t) == [id |-> i, name |-> n, created_at |-> t]

NoArg == [id |-> 0, name |-> "", created_at |-> {}]
NoReq == [kind |-> "none", id |-> 0, name |-> "", created_at |-> {}]

\* the requests a client can send to the five employee routes
ReqInputs ==
    {[kind |-> "create", id |-> 0, name |-> n, created_at |-> ot] :
        n \in Names, ot \in SuppliedTimes}
    \cup {[kind |-> k, id |-> i, name |-> "", created_at |-> {}] :
        k \in {"get", "delete"}, i \in PathIds}
    \cup {[kind |-> "get_all", id |-> 0, name |-> "", created_at |-> {}]}
    \cup {[kind |-> "update", id |-> i, name |-> n, created_at |-> ot] :
        i \in PathIds, n \in Names, ot \in SuppliedTimes}

\* Result<_, _> of pool.get() and of web::block(..).await
NoResult == [tag |-> "none", rows |-> {}, count |-> 0]
Ok(rows, n) == [tag |-> "ok", rows |-> rows, count |-> n]
Err(tag) == [tag |-> tag, rows |-> {}, count |-> 0]

\* router: no request routed yet
NoRoute == [app |-> "", method |-> "", path |-> <<>>, ctype |-> "",
            handler |-> "", status |-> 0]

\* tables the database can hold when the service starts
InitTables == {{}, {Employee(1, "A", 0)}}

\* ------------------------------------------------------------ repository
\* Option::unwrap on the model's Option values
Unwrap(ot) == CHOOSE t \in ot : TRUE

Find(tbl, employee_id) == {e \in tbl : e.id = employee_id}

\* database::create_employee with the row returned but not stored
database_create_employee_unstored(tbl, nid, employee, dbnow) ==
    [table |-> tbl, next |-> nid + 1,
     res |-> Ok({Employee(nid, employee.name, dbnow)}, 1)]

\* database::create_employee with the new row put in place of the table
database_create_employee_replacing(tbl, nid, employee, dbnow) ==
    [table |-> {Employee(nid, employee.name, dbnow)}, next |-> nid + 1,
     res |-> Ok({Employee(nid, employee.name, dbnow)}, 1)]

\* database::create_employee: INSERT .. RETURNING *, the id from the table's
\* sequence; a None created_at is left to the column default
database_create_employee(tbl, nid, employee, dbnow) ==
    LET row == Employee(nid, employee.name,
                        IF employee.created_at = {} THEN dbnow
                        ELSE Unwrap(employee.created_at))
    IN [table |-> tbl \cup {row}, next |-> nid + 1, res |-> Ok({row}, 1)]

\* database::get_employee_by_id: find(id).first(), NotFound on zero rows
get_employee_by_id(tbl, employee_id) ==
    IF Find(tbl, employee_id) = {} THEN Err("not_found")
    ELSE Ok(Find(tbl, employee_id), 1)

\* database::get_all_employees: employees.load()
get_all_employees(tbl) == Ok(tbl, Cardinality(tbl))

\* database::update_employee_by_id with the primary key in the changeset
\* and no filter on the id
update_employee_by_id_unfiltered(tbl, nid, employee_id, employee) ==
    LET rows == {Employee(employee.id, employee.name, Unwrap(employee.created_at)) :
                    e \in tbl}
    IN [table |-> rows, next |-> nid,
        res |-> IF rows = {} THEN Err("not_found") ELSE Ok(rows, 1)]

\* database::update_employee_by_id: UPDATE .. SET name, created_at WHERE id
\* RETURNING * (the changeset of Employee leaves the primary key out);
\* NotFound on zero rows
update_employee_by_id(tbl, nid, employee_id, employee) ==
    LET rows == {Employee(e.id, employee.name, Unwrap(employee.created_at)) :
                    e \in Find(tbl, employee_id)}
    IN [table |-> (tbl \ Find(tbl, employee_id)) \cup rows,
        next |-> nid,
        res |-> IF rows = {} THEN Err("not_found") ELSE Ok(rows, 1)]

\* database::delete_employee_by_id with zero rows reported as NotFound
delete_employee_by_id_strict(tbl, nid, employee_id) ==
    [table |-> tbl \ Find(tbl, employee_id),
     next |-> nid,
     res |-> IF Find(tbl, employee_id) = {} THEN Err("not_found")
             ELSE Ok({}, Cardinality(Find(tbl, employee_id)))]

\* database::delete_employee_by_id: DELETE WHERE id, the number of rows
delete_employee_by_id(tbl, nid, employee_id) ==
    [table |-> tbl \ Find(tbl, employee_id),
     next |-> nid,
     res |-> Ok({}, Cardinality(Find(tbl, employee_id)))]

\* the statement the closure of request r runs on its connection
Statement(r) ==
    CASE req[r].kind = "create" ->
            database_create_employee(employees, next_id, arg[r], now)
      [] req[r].kind = "get" ->
            [table |-> employees, next |-> next_id,
             res |-> get_employee_by_id(employees, arg[r].id)]
      [] req[r].kind = "get_all" ->
            [table |-> employees, next |-> next_id,
             res |-> get_all_employees(employees)]
      [] req[r].kind = "update" ->
            update_employee_by_id(employees, next_id, arg[r].id, arg[r])
      [] OTHER ->
            delete_employee_by_id(employees, next_id, arg[r].id)

\* ------------------------------------------------------------------ pool
\* a pool that hands out any connection, checked out or not
pool_candidates_any == Conns

\* r2d2 Pool::get: the connections a caller may be handed
pool_candidates == idle

\* a pool that keeps its last idle connection back
pool_must_wait_spare == Cardinality(idle) <= 1

\* r2d2 Pool::get: the caller waits on the pool's condition variable
pool_must_wait == pool_candidates = {}

\* a connection that is returned only by a closure that succeeded
pool_put_on_success(c, tag) == IF tag = "ok" THEN idle \cup {c} ELSE idle

\* a connection that is never given back
pool_put_never(c, tag) == idle

\* drop of a PooledConnection: the connection goes back to the idle set
pool_put(c, tag) == idle \cup {c}

\* -------------------------------------------------------------- handlers
Init ==
    /\ pc = [r \in Requests |-> "new"]
    /\ req = [r \in Requests |-> NoReq]
    /\ reactor = 0
    /\ idle = Conns
    /\ conn = [r \in Requests |-> 0]
    /\ queue = <<>>
    /\ worker = [w \in Workers |-> 0]
    /\ arg = [r \in Requests |-> NoArg]
    /\ employees \in InitTables
    /\ next_id = Cardinality(employees) + 1
    /\ now = 0
    /\ result = [r \in Requests |-> NoResult]
    /\ resp = [r \in Requests |-> 0]
    /\ body = 0
    /\ fed = 0
    /\ last = 0
    /\ nread = 0
    /\ ppc = "reading"
    /\ dropped = {}
    /\ boot = "listening"
    /\ env = [database_url |-> TRUE, db_up |-> TRUE]
    /\ rt = NoRoute

\* requests to the employee routes that the extractors refuse: a path id
\* that is no i32, a body that is no JSON, a body without a name
BadInputs ==
    {[kind |-> k, id |-> 0, name |-> "", created_at |-> {}, defect |-> "bad_id"] :
        k \in {"get", "update", "delete"}}
    \cup {[kind |-> k, id |-> 0, name |-> "", created_at |-> {}, defect |-> d] :
        k \in {"create", "update"}, d \in {"bad_json", "missing_name"}}

\* extractors that let every request through
extract_lenient(i) == [ok |-> TRUE, status |-> 0]

\* web::types::Path<i32> and web::types::Json<NewEmployee>: the handler's
\* arguments, or the error response of the extractor that failed
extract(i) ==
    IF "defect" \in DOMAIN i
    THEN [ok |-> FALSE, status |-> IF i.defect = "bad_id" THEN 404 ELSE 400]
    ELSE [ok |-> TRUE, status |-> 0]

\* a client sends a request; the router picks its handler and the
\* extractors hand it the arguments, or answer with their error and the
\* handler is not called (requests are numbered in the order they arrive)
Request(r) ==
    /\ boot = "listening"
    /\ pc[r] = "new"
    /\ \A q \in Requests : q < r => pc[q] # "new"
    /\ \E i \in ReqInputs \cup BadInputs :
        IF extract(i).ok
        THEN /\ req' = [req EXCEPT ![r] = i]
             /\ pc' = [pc EXCEPT ![r] = "ready"]
             /\ UNCHANGED resp
        ELSE /\ resp' = [resp EXCEPT ![r] = extract(i).status]
             /\ pc' = [pc EXCEPT ![r] = "done"]
             /\ UNCHANGED req
    /\ UNCHANGED <<reactor, idle, conn, queue, worker, arg, employees, next_id,
                   now, result>>
    /\ UNCHANGED <<payVars, sideVars>>

\* `web::block(move || ..)`: the closure, owning the connection c and the
\* value a, is queued for the thread pool and the handler awaits it, which
\* leaves the reactor thread to other requests
Block(r, c, a) ==
    /\ conn' = [conn EXCEPT ![r] = c]
    /\ idle' = idle \ {c}
    /\ arg' = [arg EXCEPT ![r] = a]
    /\ queue' = Append(queue, r)
    /\ pc' = [pc EXCEPT ![r] = "queued"]
    /\ reactor' = 0

\* `pool.get()` called by the handler at its first poll, on the reactor
\* thread: a connection is taken and the handler goes on to web::block, or
\* the thread blocks in the pool
PoolGet(r, a) ==
    /\ pc[r] = "ready"
    /\ reactor = 0
    /\ IF pool_must_wait
       THEN /\ pc' = [pc EXCEPT ![r] = "waiting"]
            /\ reactor' = r
            /\ UNCHANGED <<idle, conn, arg, queue>>
       ELSE \E c \in pool_candidates : Block(r, c, a)
    /\ UNCHANGED <<req, worker, employees, next_id, now, result, resp>>
    /\ UNCHANGED <<payVars, sideVars>>

\* `pool.get()`: the blocked caller is woken by a returned connection and
\* the handler goes on to web::block
PoolWait(r, a) ==
    /\ pc[r] = "waiting"
    /\ \E c \in pool_candidates : Block(r, c, a)
    /\ UNCHANGED <<req, worker, employees, next_id, now, result, resp>>
    /\ UNCHANGED <<payVars, sideVars>>

\* `pool.get()` gives Err after the pool's connection timeout and `.expect`
\* panics in the handler: the request gets no response
PoolTimeout(r) ==
    /\ pc[r] = "waiting"
    /\ pool_candidates = {}
    /\ result' = [result EXCEPT ![r] = Err("pool_timeout")]
    /\ pc' = [pc EXCEPT ![r] = "panicked"]
    /\ req' = [req EXCEPT ![r] = NoReq]
    /\ reactor' = 0
    /\ UNCHANGED <<idle, conn, queue, worker, arg, employees, next_id, now,
                   resp>>
    /\ UNCHANGED <<payVars, sideVars>>

\* a handler that answers 200 whenever the closure was cancelled
http_status_cancel_ok(res) == IF res.tag \in {"ok", "canceled"} THEN 200 ELSE 500

\* `.map_err(ErrorInternalServerError)?` and `HttpResponse::Ok().json(..)`
http_status(res) == IF res.tag = "ok" THEN 200 ELSE 500

\* the handler is polled again with the closure's result and responds; the
\* future and everything it owned is dropped
Respond(r) ==
    /\ pc[r] = "finished"
    /\ reactor = 0
    /\ resp' = [resp EXCEPT ![r] = http_status(result[r])]
    /\ pc' = [pc EXCEPT ![r] = "done"]
    /\ result' = [result EXCEPT ![r] = NoResult]
    /\ req' = [req EXCEPT ![r] = NoReq]
    /\ UNCHANGED <<reactor, idle, conn, queue, worker, arg, employees,
                   next_id, now>>
    /\ UNCHANGED <<payVars, sideVars>>

\* the NewEmployee create_employee moves into its closure
create_arg(e, t) == [id |-> 0, name |-> e.name, created_at |-> {t}]

\* the Employee update_employee moves into its closure
update_arg(e, t) ==
    [id |-> e.id, name |-> e.name,
     created_at |-> IF e.created_at = {} THEN {t} ELSE e.created_at]

\* the id the other handlers move into their closures
id_arg(e) == [id |-> e.id, name |-> "", created_at |-> {}]

create_employee(r) ==
    /\ req[r].kind = "create"
    /\ \/ PoolGet(r, create_arg(req[r], now))
       \/ PoolWait(r, create_arg(req[r], now))
       \/ PoolTimeout(r)
       \/ Respond(r)

get_employee(r) ==
    /\ req[r].kind = "get"
    /\ \/ PoolGet(r, id_arg(req[r]))
       \/ PoolWait(r, id_arg(req[r]))
       \/ PoolTimeout(r)
       \/ Respond(r)

get_employees(r) ==
    /\ req[r].kind = "get_all"
    /\ \/ PoolGet(r, id_arg(req[r]))
       \/ PoolWait(r, id_arg(req[r]))
       \/ PoolTimeout(r)
       \/ Respond(r)

update_employee(r) ==
    /\ req[r].kind = "update"
    /\ \/ PoolGet(r, update_arg(req[r], now))
       \/ PoolWait(r, update_arg(req[r], now))
       \/ PoolTimeout(r)
       \/ Respond(r)

delete_employee(r) ==
    /\ req[r].kind = "delete"
    /\ \/ PoolGet(r, id_arg(req[r]))
       \/ PoolWait(r, id_arg(req[r]))
       \/ PoolTimeout(r)
       \/ Respond(r)

\* ----------------------------------------------------------- thread pool
\* a blocking pool that throws away a queued closure nobody awaits
start_pc_cancel(r) == IF r \in dropped THEN "gone" ELSE "running"

\* the blocking pool starts a queued closure whether or not the handler that
\* queued it still awaits the result
start_pc(r) == "running"

\* a free thread of the blocking pool (the first one: the threads are
\* alike) takes the oldest queued closure
WorkerStart(w) ==
    /\ worker[w] = 0
    /\ \A v \in Workers : v < w => worker[v] # 0
    /\ queue # <<>>
    /\ worker' = [worker EXCEPT ![w] = Head(queue)]
    /\ queue' = Tail(queue)
    /\ pc' = [pc EXCEPT ![Head(queue)] = start_pc(Head(queue))]
    /\ UNCHANGED <<req, reactor, idle, conn, arg, employees, next_id, now,
                   result, resp>>
    /\ UNCHANGED <<payVars, sideVars>>

\* what web::block(..).await gives for a closure that ended with `out`
block_result(out, res) ==
    CASE out = "ok" -> res
      [] out = "database_error" -> Err("database_error")
      [] OTHER -> Err("canceled")

\* the closure runs: its one statement succeeds, is refused by the database
\* or panics; the connection it owns is dropped as it ends and the thread
\* is free again; the result goes to the awaiting handler, or nowhere when
\* the handler was dropped
WorkerRun(w) ==
    /\ worker[w] # 0
    /\ LET r == worker[w]
       IN \E out \in {"ok", "database_error", "panic"} :
           /\ employees' = IF out = "ok" THEN Statement(r).table ELSE employees
           /\ next_id' = IF out = "ok" THEN Statement(r).next ELSE next_id
           /\ idle' = pool_put(conn[r], block_result(out, Statement(r).res).tag)
           /\ conn' = [conn EXCEPT ![r] = 0]
           /\ IF r \in dropped
              THEN /\ pc' = [pc EXCEPT ![r] = "gone"]
                   /\ req' = [req EXCEPT ![r] = NoReq]
                   /\ UNCHANGED result
              ELSE /\ pc' = [pc EXCEPT ![r] = "finished"]
                   /\ result' = [result EXCEPT ![r] =
                                    block_result(out, Statement(r).res)]
                   /\ UNCHANGED req
    /\ worker' = [worker EXCEPT ![w] = 0]
    /\ arg' = [arg EXCEPT ![worker[w]] = NoArg]
    /\ UNCHANGED <<reactor, queue, now, resp>>
    /\ UNCHANGED <<payVars, sideVars>>

\* the client of request r goes away while the handler awaits web::block:
\* the handler's future is dropped, the closure stays with the thread pool
Abandon(r) ==
    /\ pc[r] \in {"queued", "running"}
    /\ r \notin dropped
    /\ reactor = 0
    /\ dropped' = dropped \cup {r}
    /\ UNCHANGED <<boot, env, rt>>
    /\ UNCHANGED <<empVars, payVars>>

\* the wall clock advances
Tick ==
    /\ now < MaxTime
    /\ now' = now + 1
    /\ UNCHANGED <<pc, req, reactor, idle, conn, queue, worker, arg, employees,
                   next_id, result, resp>>
    /\ UNCHANGED <<payVars, sideVars>>

\* --------------------------------------------------------------- payload
ChunkSizes == {0, 1, 131072, 262143, 262144, 262145}

\* the size test with the ceiling itself refused
overflow_at_ceiling(len, chunk) == (len + chunk) >= MAX_SIZE

\* `(body.len() + chunk.len()) > MAX_SIZE`
overflow(len, chunk) == (len + chunk) > MAX_SIZE

\* payload: `payload.next().await` gives a chunk of sz bytes, which is
\* appended to the body unless the body would pass MAX_SIZE
payload_chunk(sz) ==
    /\ ppc = "reading"
    /\ nread < MaxChunks
    /\ nread' = nread + 1
    /\ fed' = fed + sz
    /\ last' = sz
    /\ IF overflow(body, sz)
       THEN ppc' = "overflow" /\ body' = body
       ELSE ppc' = "reading" /\ body' = body + sz
    /\ UNCHANGED <<empVars, sideVars>>

\* payload: `chunk?` on a chunk the stream failed to read
payload_chunk_error ==
    /\ ppc = "reading"
    /\ ppc' = "payload_error"
    /\ UNCHANGED <<body, fed, last, nread>>
    /\ UNCHANGED <<empVars, sideVars>>

\* payload: the stream ends and serde_json::from_slice decodes the body,
\* which is an Info or is not (an empty body is not)
payload_end(valid) ==
    /\ ppc = "reading"
    /\ ppc' = IF valid /\ body > 0 THEN "ok" ELSE "json_error"
    /\ UNCHANGED <<body, fed, last, nread>>
    /\ UNCHANGED <<empVars, sideVars>>

NextPayload ==
    \/ \E sz \in ChunkSizes : payload_chunk(sz)
    \/ payload_chunk_error
    \/ \E valid \in BOOLEAN : payload_end(valid)

SpecPayload == Init /\ [][NextPayload]_vars

\* the steps of the employee service
Serve ==
    \/ \E r \in Requests : Request(r)
    \/ \E r \in Requests : create_employee(r)
    \/ \E r \in Requests : get_employee(r)
    \/ \E r \in Requests : get_employees(r)
    \/ \E r \in Requests : update_employee(r)
    \/ \E r \in Requests : delete_employee(r)
    \/ \E w \in Workers : WorkerStart(w)
    \/ \E w \in Workers : WorkerRun(w)

Next ==
    \/ Serve
    \/ Tick

Spec == Init /\ [][Next]_vars

\* ---------------------------------------------------------------- routing
\* a path and a pattern are sequences of segments; "{}" is a pattern's
\* parameter segment, "" the content-type of a request without the header
Methods == {"GET", "POST", "PUT", "DELETE"}
ContentTypes == {"", "application/json", "text/plain"}
Paths ==
    { <<>>,
      <<"api", "v1", "health">>,
      <<"api", "v1", "index.html">>,
      <<"api", "v1", "users", "1", "bob">>,
      <<"api", "v1", "users", "payload">>,
      <<"api", "v1", "users", "json">>,
      <<"api", "v1", "stream">>,
      <<"api", "v1", "error">>,
      <<"api", "v1", "resource">>,
      <<"api", "v1", "employee">>,
      <<"api", "v1", "employee", "1">>,
      <<"api", "v1", "employees">>,
      <<"api", "v1", "nothing">>,
      <<"index.html">> }

\* web::guard: a method guard, the Header("content-type", v) guard
Method(m) == [kind |-> "method", v |-> m]
Header(v) == [kind |-> "header", v |-> v]
check(g, m, ct) == IF g.kind = "method" THEN g.v = m ELSE g.v = ct

\* web::get().to(h), web::post().to(h), web::route().guard(..).to(h)
route(guards, h) == [guards |-> guards, handler |-> h]
\* web::resource(pattern).guard(..).route(..)
resource(pattern, guards, routes) ==
    [pattern |-> pattern, guards |-> guards, routes |-> routes]
\* #[web::get(pattern)] and its like: a resource guarded by the method
service(m, pattern, h) == resource(pattern, {Method(m)}, <<route({}, h)>>)

\* .route(pattern, r) that would leave the route without its guards
app_route_unguarded(pattern, r) == resource(pattern, {}, <<route({}, r.handler)>>)

\* App::route and Scope::route: a resource of its own for the one route,
\* the guards of the route guarding the resource
app_route(pattern, r) == resource(pattern, r.guards, <<route({}, r.handler)>>)

\* web::scope(prefix): its services below the prefix
scope(prefix, services) ==
    [i \in 1..Len(services) |->
        [services[i] EXCEPT !.pattern = prefix \o services[i].pattern]]

\* the services that handlers::routes::config registers
config ==
    scope(<<"api", "v1">>,
        << service("GET", <<"health">>, "health"),
           app_route(<<"index.html">>, route({Method("GET")}, "index")),
           service("GET", <<"users", "{}", "{}">>, "path"),
           service("GET", <<"users", "q">>, "query") >>
        \o scope(<<"users">>,
            << resource(<<"payload">>, {Header("application/json")},
                        <<route({Method("POST")}, "payload")>>),
               resource(<<"json">>, {Header("application/json")},
                        <<route({Method("POST")}, "json")>>) >>)
        \o
        << service("GET", <<"stream">>, "stream"),
           service("GET", <<"error">>, "error"),
           resource(<<"resource">>, {},
                    <<route({Method("GET"), Header("text/plain")}, "closure")>>),
           resource(<<"employee">>, {},
                    <<route({Method("POST")}, "create_employee")>>),
           service("GET", <<"employee", "{}">>, "get_employee"),
           service("GET", <<"employees">>, "get_employees"),
           service("PUT", <<"employee", "{}">>, "update_employee"),
           service("DELETE", <<"employee", "{}">>, "delete_employee") >>)

\* the application of tests/app_test.rs
test_app == <<app_route(<<>>, route({Method("GET")}, "index"))>>

matches(pattern, path) ==
    /\ Len(pattern) = Len(path)
    /\ \A i \in 1..Len(pattern) : pattern[i] = "{}" \/ pattern[i] = path[i]

\* the status a handler answers with where that is fixed by its body; 0 for
\* a handler whose answer depends on what it extracts and runs
handler_status(h) ==
    IF h \in {"index", "closure", "health"} THEN 200 ELSE 0

\* the router: the first resource whose pattern and guards accept the
\* request, in it the first route whose guards accept it; no resource is
\* 404 Not Found, a resource with no route for the request answers
\* 405 Method Not Allowed
dispatch(services, m, path, ct) ==
    LET res == {i \in 1..Len(services) :
                    /\ matches(services[i].pattern, path)
                    /\ \A g \in services[i].guards : check(g, m, ct)}
    IN  IF res = {} THEN [handler |-> "", status |-> 404]
        ELSE LET s  == services[CHOOSE i \in res : \A j \in res : i <= j]
                 rs == {k \in 1..Len(s.routes) :
                            \A g \in s.routes[k].guards : check(g, m, ct)}
             IN  IF rs = {} THEN [handler |-> "", status |-> 405]
                 ELSE LET h == s.routes[CHOOSE k \in rs : \A j \in rs : k <= j].handler
                      IN  [handler |-> h, status |-> handler_status(h)]

Routed(app, services, m, path, ct) ==
    LET d == dispatch(services, m, path, ct)
    IN  /\ boot = "listening"
        /\ rt' = [app |-> app, method |-> m, path |-> path, ctype |-> ct,
                  handler |-> d.handler, status |-> d.status]
        /\ UNCHANGED <<dropped, boot, env>>
        /\ UNCHANGED <<empVars, payVars>>

\* a request arrives at the server of main
serve_request ==
    \E m \in Methods, path \in Paths, ct \in ContentTypes :
        Routed("main", config, m, path, ct)

\* test::call_service(&app, req)
call_service ==
    \E m \in Methods, path \in Paths, ct \in ContentTypes :
        Routed("test", test_app, m, path, ct)

NextRouter ==
    \/ serve_request
    \/ call_service

SpecRouter == Init /\ [][NextRouter]_vars

\* ---------------------------------------------------------------- startup
\* what main can find when the process starts
Envs == [database_url : BOOLEAN, db_up : BOOLEAN]

\* the process before main has run: no pool, nothing served
InitBoot ==
    /\ pc = [r \in Requests |-> "new"]
    /\ req = [r \in Requests |-> NoReq]
    /\ reactor = 0
    /\ idle = {}
    /\ conn = [r \in Requests |-> 0]
    /\ queue = <<>>
    /\ worker = [w \in Workers |-> 0]
    /\ arg = [r \in Requests |-> NoArg]
    /\ employees \in InitTables
    /\ next_id = Cardinality(employees) + 1
    /\ now = 0
    /\ result = [r \in Requests |-> NoResult]
    /\ resp = [r \in Requests |-> 0]
    /\ body = 0
    /\ fed = 0
    /\ last = 0
    /\ nread = 0
    /\ ppc = "reading"
    /\ dropped = {}
    /\ boot = "start"
    /\ env \in Envs
    /\ rt = NoRoute

\* database::new that builds the pool without a first connection
new_unchecked(e) == IF e.database_url THEN "pool" ELSE "aborted"

\* database::new: `.expect("DATABASE_URL must be set")` and
\* `.build(manager).expect("Failed to create pool.")` panic, or the pool is
\* there
new(e) == IF e.database_url /\ e.db_up THEN "pool" ELSE "aborted"

\* main: `let pool = repository::database::new();`
main_new ==
    /\ boot = "start"
    /\ boot' = new(env)
    /\ idle' = IF new(env) = "pool" THEN Conns ELSE idle
    /\ UNCHANGED <<pc, req, reactor, conn, queue, worker, arg, employees, next_id,
                   now, result, resp>>
    /\ UNCHANGED <<dropped, env, rt>>
    /\ UNCHANGED payVars

\* main: `HttpServer::new(..).bind(("127.0.0.1", 8080))?.run()`: the server
\* listens, or main returns the error of bind
main_bind ==
    /\ boot = "pool"
    /\ \E bound \in BOOLEAN : boot' = IF bound THEN "listening" ELSE "bind_failed"
    /\ UNCHANGED <<dropped, env, rt>>
    /\ UNCHANGED <<empVars, payVars>>

NextStartup ==
    \/ main_new
    \/ main_bind
    \/ Next

SpecStartup == InitBoot /\ [][NextStartup]_vars

\* the service with clients that disconnect (the clock is left alone: no
\* step of a closure reads it)
NextAbandon ==
    \/ Serve
    \/ \E r \in Requests : Abandon(r)

SpecAbandon == Init /\ [][NextAbandon]_vars

\* ---------------------------------------------------------------- claims
CheckedOut == {r \in Requests : conn[r] # 0}

\* C1: at most PoolSize connections are checked out, no connection is held
\* by two requests or is idle while held, and a held connection belongs to a
\* request whose closure is queued for or running on a pool thread
C1_PoolExclusive ==
    /\ Cardinality(CheckedOut) <= PoolSize
    /\ \A r1, r2 \in Requests :
        (conn[r1] # 0 /\ conn[r1] = conn[r2]) => r1 = r2
    /\ \A r \in Requests :
        conn[r] # 0 => (conn[r] \notin idle /\ pc[r] \in {"queued", "running"})

C1_Witness ==
    \E r1, r2 \in Requests :
        /\ pc[r1] = "running"
        /\ conn[r1] # 0
        /\ pc[r2] = "waiting"

\* C2: no request is ever blocked in the pool's acquire on the reactor
\* thread (the acquire runs on a thread of the blocking pool)
C2_AcquireOffReactor ==
    \A r \in Requests : pc[r] = "waiting" => reactor # r

\* C3: a request whose repository operation has completed, with a result or
\* with an error, holds no connection, and with no operation in flight every
\* connection is back in the pool
C3_ConnReturned ==
    /\ \A r \in Requests : pc[r] \in {"finished", "done"} => conn[r] = 0
    /\ (\A r \in Requests : pc[r] \notin {"queued", "running"}) =>
        (idle = Conns /\ CheckedOut = {})

C3_Witness ==
    \E r \in Requests :
        /\ pc[r] = "finished"
        /\ result[r].tag \in {"database_error", "canceled", "not_found"}
        /\ idle = Conns

C5_AcquireFailureIs500 ==
    \A r \in Requests :
        result[r].tag = "pool_timeout" => (resp[r] = 500 /\ pc[r] # "panicked")

\* C6: a closure that ends, however it ends, leaves its pool thread free and
\* gives its handler a result; a failure is answered with status 500 and
\* no handler panics over a closure's failure
C6_BlockFailureIs500 ==
    [][\A r \in Requests :
        /\ (pc[r] = "running" /\ pc'[r] # "running") =>
            /\ pc'[r] = "finished"
            /\ result'[r].tag # "none"
            /\ \A w \in Workers : worker'[w] # r
        /\ (pc[r] = "finished" /\ result[r].tag # "ok" /\ pc'[r] # "finished") =>
            (pc'[r] = "done" /\ resp'[r] = 500)
        /\ (pc[r] \in {"queued", "running", "finished"}) => pc'[r] # "panicked"
      ]_vars

C6_Witness ==
    \E r \in Requests :
        /\ pc[r] = "done"
        /\ resp[r] = 500
        /\ \A w \in Workers : worker[w] = 0

\* C7: the body never holds more than MAX_SIZE bytes; the handler fails
\* with overflow exactly when the chunks taken sum to more than MAX_SIZE, at
\* the first chunk that passes it and with no chunk taken after it; the body
\* is decoded only when all chunks were taken and fit
C7_PayloadBound ==
    /\ body <= MAX_SIZE
    /\ (fed > MAX_SIZE) <=> (ppc = "overflow")
    /\ ppc = "overflow" => (fed - last <= MAX_SIZE /\ body = fed - last)
    /\ ppc \in {"ok", "json_error"} => (body = fed /\ fed <= MAX_SIZE)

C7_Witness ==
    /\ ppc = "overflow"
    /\ nread > 1
    /\ body > 0

\* C8: when a create succeeds, the row it returns carries the request's name,
\* an id no stored row had, and a created_at, and get_employee_by_id of that
\* id then gives exactly that row
C8_CreateThenGet ==
    [][\A r \in Requests :
        (/\ req[r].kind = "create"
         /\ pc[r] = "running"
         /\ pc'[r] = "finished"
         /\ result'[r].tag = "ok") =>
            /\ result'[r].rows # {}
            /\ \A e \in result'[r].rows :
                /\ e.name = req[r].name
                /\ e.id \notin {x.id : x \in employees}
                /\ e.created_at \in 0..MaxTime
                /\ get_employee_by_id(employees', e.id) = Ok({e}, 1)
      ]_vars

C8_Witness ==
    \E r \in Requests :
        /\ req[r].kind = "create"
        /\ pc[r] = "finished"
        /\ result[r].tag = "ok"
        /\ Cardinality(employees) > 1
        /\ \E e \in result[r].rows : get_employee_by_id(employees, e.id) = Ok({e}, 1)

\* C9: create_employee moves into its closure the created_at the caller
\* supplied, or the server's now when none was supplied, and the row stored
\* carries the created_at moved into the closure
C9_SuppliedCreatedAtKept ==
    [][\A r \in Requests :
        req[r].kind = "create" =>
            /\ (pc[r] \in {"ready", "waiting"} /\ pc'[r] = "queued") =>
                arg'[r].created_at =
                    IF req[r].created_at = {} THEN {now} ELSE req[r].created_at
            /\ (pc[r] = "running" /\ pc'[r] = "finished" /\ result'[r].tag = "ok") =>
                \A e \in result'[r].rows : e.created_at \in arg[r].created_at
      ]_vars

\* C10: a successful update leaves every other row as it was, keeps the
\* row's id, sets the name, sets created_at only when the payload carried
\* one, and get_employee_by_id of the id then gives the updated row
C10_UpdateOnlySubmitted ==
    [][\A r \in Requests :
        (/\ req[r].kind = "update"
         /\ pc[r] = "running"
         /\ pc'[r] = "finished"
         /\ result'[r].tag = "ok") =>
            /\ {e \in employees : e.id # req[r].id} =
               {e \in employees' : e.id # req[r].id}
            /\ \A old \in Find(employees, req[r].id) :
                Find(employees', req[r].id) =
                    {Employee(old.id, req[r].name,
                              IF req[r].created_at = {} THEN old.created_at
                              ELSE Unwrap(req[r].created_at))}
            /\ get_employee_by_id(employees', req[r].id) = result'[r]
      ]_vars

\* the closure of request r, of the given kind, ends in this step
Ran(r, kind) ==
    /\ req[r].kind = kind
    /\ pc[r] = "running"
    /\ pc'[r] # "running"

\* C11: a delete the database carries out succeeds with a count of 0 or 1,
\* the number of rows that had the id; afterwards get_employee_by_id of the
\* id is NotFound, every other row is as it was, and the handler answers a
\* successful delete with status 200
C11_DeleteCount ==
    [][\A r \in Requests :
        /\ (Ran(r, "delete")
            /\ result'[r].tag \notin {"database_error", "canceled"}) =>
            /\ result'[r].tag = "ok"
            /\ result'[r].count \in {0, 1}
            /\ result'[r].count = Cardinality(Find(employees, req[r].id))
            /\ get_employee_by_id(employees', req[r].id) = Err("not_found")
            /\ employees' = employees \ Find(employees, req[r].id)
        /\ (/\ req[r].kind = "delete"
            /\ pc[r] = "finished"
            /\ result[r].tag = "ok"
            /\ pc'[r] = "done") => resp'[r] = 200
      ]_vars

C11_Witness ==
    \E r1, r2 \in Requests :
        /\ req[r1].kind = "delete" /\ req[r2].kind = "delete"
        /\ pc[r1] = "finished" /\ pc[r2] = "finished"
        /\ result[r1].tag = "ok" /\ result[r1].count = 1
        /\ result[r2].tag = "ok" /\ result[r2].count = 0

\* C12: a get or an update that found no row with the id is answered with
\* status 404
C12_NotFoundIs404 ==
    [][\A r \in Requests :
        (/\ req[r].kind \in {"get", "update"}
         /\ pc[r] = "finished"
         /\ result[r].tag = "not_found"
         /\ pc'[r] = "done") => resp'[r] = 404
      ]_vars

\* C13: a successful create makes the result of get_all_employees longer by
\* exactly one, the new element being the created row; a get-all returns the
\* table and leaves it as it was
C13_GetAllGrowsByOne ==
    [][\A r \in Requests :
        /\ (Ran(r, "create") /\ result'[r].tag = "ok") =>
            /\ get_all_employees(employees').count =
               get_all_employees(employees).count + 1
            /\ get_all_employees(employees').rows \ get_all_employees(employees).rows
               = result'[r].rows
            /\ get_all_employees(employees).rows \subseteq
               get_all_employees(employees').rows
        /\ Ran(r, "get_all") =>
            /\ employees' = employees
            /\ result'[r].tag = "ok" =>
                (result'[r].rows = employees
                 /\ result'[r].count = Cardinality(employees))
      ]_vars

C13_Witness ==
    \E r1, r2 \in Requests :
        /\ req[r1].kind = "create" /\ pc[r1] = "finished" /\ result[r1].tag = "ok"
        /\ req[r2].kind = "get_all" /\ pc[r2] = "finished"
        /\ result[r2].tag = "ok"
        /\ result[r2].count = 2
        /\ result[r1].rows \subseteq result[r2].rows

UniqueIds(tbl) == \A e1, e2 \in tbl : e1.id = e2.id => e1 = e2

\* C14: no two stored employees ever share an id, and an update, whatever
\* its path id and body, leaves the ids of the stored employees as they were
C14_IdImmutableUnique ==
    /\ [](UniqueIds(employees))
    /\ [][\A r \in Requests :
            Ran(r, "update") =>
                /\ {e.id : e \in employees'} = {e.id : e \in employees}
                /\ Cardinality(employees') = Cardinality(employees)
         ]_vars

C14_Witness ==
    \E r \in Requests :
        /\ req[r].kind = "update"
        /\ pc[r] = "finished"
        /\ result[r].tag = "ok"
        /\ Cardinality(employees) > 1
        /\ \E e \in employees : e.id # req[r].id

\* C15: a closure queued for or running on the thread pool whose request
\* was abandoned is still started and run to its end: it is never taken off
\* the pool, its statement is applied to the table by that one run, its
\* result goes nowhere, no response is sent and its connection is back in
\* the pool afterwards; the table changes only by the run of a closure
C15_DispatchedRunsToCompletion ==
    [][\A r \in Requests :
        /\ (r \in dropped /\ pc[r] = "queued" /\ pc'[r] # "queued") =>
            (pc'[r] = "running" /\ conn'[r] = conn[r] /\ arg'[r] = arg[r])
        /\ (r \in dropped /\ pc[r] = "running" /\ pc'[r] # "running") =>
            /\ pc'[r] = "gone"
            /\ employees' \in {employees, Statement(r).table}
            /\ result'[r] = NoResult
            /\ resp'[r] = 0
            /\ conn'[r] = 0
            /\ conn[r] \in idle'
            /\ \A w \in Workers : worker'[w] # r
        /\ pc[r] = "gone" => (pc'[r] = "gone" /\ resp'[r] = 0)
        /\ r \in dropped => r \in dropped'
        /\ employees' # employees =>
            \E q \in Requests :
                /\ pc[q] = "running"
                /\ pc'[q] \in {"finished", "gone"}
                /\ employees' = Statement(q).table
      ]_vars

C15_Witness ==
    /\ pc[1] = "gone"
    /\ pc[2] = "new"
    /\ Cardinality(employees) = 2
    /\ idle = Conns

\* C20: a request waiting for a connection holds none, a request holding
\* one has its closure on the thread pool and is not waiting, no closure is
\* on the pool twice, and whenever a request waits on an empty pool some
\* holder's closure can be started or run, which returns its connection
C20_NoPoolDeadlock ==
    /\ \A r \in Requests : pc[r] = "waiting" => conn[r] = 0
    /\ \A r \in Requests :
        conn[r] # 0 <=>
            (\/ \E k \in 1..Len(queue) : queue[k] = r
             \/ \E w \in Workers : worker[w] = r)
    /\ \A j, k \in 1..Len(queue) : queue[j] = queue[k] => j = k
    /\ \A r \in Requests, w \in Workers :
        worker[w] = r => \A k \in 1..Len(queue) : queue[k] # r
    /\ ((\E r \in Requests : pc[r] = "waiting") /\ idle = {}) =>
        \E w \in Workers : ENABLED WorkerStart(w) \/ ENABLED WorkerRun(w)

C20_Witness ==
    \E r, q \in Requests :
        /\ pc[r] = "waiting"
        /\ idle = {}
        /\ pc[q] = "queued"
        /\ conn[q] # 0

\* C19: a request whose path or body extraction fails is answered with a
\* 4xx status in the step it arrives in, with the pool, the thread pool and
\* the table left as they were, and it never gets a connection or a closure
\* later; a request that reaches its handler is well-formed
C19_ExtractionFailureFrame ==
    [][\A r \in Requests :
        /\ (pc[r] = "new" /\ pc'[r] # "new") =>
            \/ /\ pc'[r] = "ready"
               /\ req'[r] \in ReqInputs
               /\ resp'[r] = 0
            \/ /\ pc'[r] = "done"
               /\ resp'[r] \in 400..499
               /\ UNCHANGED <<idle, conn, queue, worker, arg, employees, next_id>>
        /\ pc[r] = "done" =>
            (pc'[r] = "done" /\ conn'[r] = 0 /\ resp'[r] = resp[r])
      ]_vars

C19_Witness ==
    /\ pc[1] = "done" /\ resp[1] = 404
    /\ pc[2] = "done" /\ resp[2] = 400
    /\ idle = Conns
    /\ next_id = Cardinality(employees) + 1

\* C16: the server listens only with DATABASE_URL set, the database
\* reachable and the pool built; without one of them main never gets past
\* database::new; and a request is handled only while the server listens
C16_NoServeWithoutPool ==
    /\ boot = "listening" =>
        /\ env.database_url /\ env.db_up
        /\ idle \cup {conn[r] : r \in CheckedOut} = Conns
    /\ (~env.database_url \/ ~env.db_up) => boot \in {"start", "aborted"}
    /\ boot # "listening" => \A r \in Requests : pc[r] = "new" /\ resp[r] = 0
    /\ boot \in {"start", "aborted"} => idle = {}

C16_Witness ==
    /\ boot = "aborted"
    /\ env.database_url
    /\ ~env.db_up
    /\ now = MaxTime

\* C17: every request ends in exactly one handler or in 404, and a request
\* to a header-guarded route (POST /users/payload, POST /users/json,
\* GET /resource) with another content-type is answered 404 without the
\* guarded handler
C17_HandlerOr404 ==
    rt.app = "main" =>
        /\ \/ rt.handler # "" /\ rt.status \notin 400..499
           \/ rt.handler = "" /\ rt.status = 404
        /\ ( /\ \/ rt.path \in {<<"api", "v1", "users", "payload">>,
                                <<"api", "v1", "users", "json">>}
                   /\ rt.method = "POST" /\ rt.ctype # "application/json"
                \/ rt.path = <<"api", "v1", "resource">>
                   /\ rt.method = "GET" /\ rt.ctype # "text/plain" )
           => rt.handler = "" /\ rt.status = 404

\* C18: on the path of a route registered for GET only, a GET is answered
\* by the handler with a success status and any other method is answered
\* with a client error without the handler
C18_GetOnlyRoute ==
    ( \/ rt.app = "test" /\ rt.path = <<>>
      \/ rt.app = "main" /\ rt.path = <<"api", "v1", "index.html">> ) =>
        IF rt.method = "GET"
        THEN rt.handler = "index" /\ rt.status \in 200..299
        ELSE rt.handler = "" /\ rt.status \in 400..499

C18_Witness ==
    /\ rt.app = "test"
    /\ rt.path = <<>>
    /\ rt.method = "POST"
    /\ rt.handler = ""
    /\ rt.status \in 400..499

====
